---- MODULE Spec2Model ----
(***************************************************************************)
(* curioso: a probe of a Linux host (OS, sandbox, distro, package manager, *)
(* dynamic linker, libc, ldd recipe).  The module models the two           *)
(* orchestrators (curioso.app.probe and curioso.collect_min_report), the   *)
(* functions they call, the command runner and the CLI entry point.        *)
(*                                                                         *)
(* Python strings whose characters the code looks at (paths, process       *)
(* output, file contents, the OS name) are sequences of one-character      *)
(* strings, so that lower(), strip(), split(), slicing, len() and the `in` *)
(* test are computed; strings that are only compared for equality (libc    *)
(* family, detector, exception names) are TLA+ strings.                    *)
(* An optional value (T | None) is None or Some(v).                        *)
(* A call either returns, Return(v), or raises, Raise(exception name).     *)
(***************************************************************************)
EXTENDS Naturals, Integers, Sequences, FiniteSets

VARIABLES host, call, args, ret, spawned, globbed, probes, rankings

vars == <<host, call, args, ret, spawned, globbed, probes, rankings>>

\* ------------------------------------------------------------------ values

None == [some |-> FALSE]

Some(v) == [some |-> TRUE, val |-> v]

Return(v) == [ok |-> TRUE, val |-> v]

Raise(e) == [ok |-> FALSE, exc |-> e]

\* ----------------------------------------------------------------- strings

Upper ==
    <<"A", "B", "C", "D", "E", "F", "G", "H", "I", "J", "K", "L", "M", "N", "O", "P", "Q", "R", "S", "T", "U", "V", "W", "X", "Y", "Z">>
LowerAlpha ==
    <<"a", "b", "c", "d", "e", "f", "g", "h", "i", "j", "k", "l", "m", "n", "o", "p", "q", "r", "s", "t", "u", "v", "w", "x", "y", "z">>

Whitespace == {" ", "\n", "\t"}

\* str.lower() of one character
LowerChar(c) ==
    IF \E i \in 1..Len(Upper) : Upper[i] = c
    THEN LowerAlpha[CHOOSE i \in 1..Len(Upper) : Upper[i] = c]
    ELSE c

\* str.lower()
Lower(s) == [i \in 1..Len(s) |-> LowerChar(s[i])]

\* sub in s
Contains(s, sub) ==
    \E i \in 0..(Len(s) - Len(sub)) : SubSeq(s, i + 1, i + Len(sub)) = sub

RECURSIVE LStrip(_)
LStrip(s) ==
    IF s # <<>> /\ Head(s) \in Whitespace THEN LStrip(Tail(s)) ELSE s

RECURSIVE RStrip(_)
RStrip(s) ==
    IF s # <<>> /\ s[Len(s)] \in Whitespace
    THEN RStrip(SubSeq(s, 1, Len(s) - 1))
    ELSE s

\* str.strip()
Strip(s) == RStrip(LStrip(s))

\* str.split(sep) for a one-character separator: every occurrence splits,
\* empty pieces are kept
RECURSIVE Split(_, _)
Split(s, sep) ==
    IF \E i \in 1..Len(s) : s[i] = sep
    THEN LET i == CHOOSE j \in 1..Len(s) :
                      s[j] = sep /\ \A k \in 1..(j - 1) : s[k] # sep
         IN  <<SubSeq(s, 1, i - 1)>> \o Split(SubSeq(s, i + 1, Len(s)), sep)
    ELSE <<s>>

\* str.splitlines(): split at line feeds, no empty piece after a final one
SplitLines(s) ==
    IF s = <<>> THEN <<>>
    ELSE IF s[Len(s)] = "\n" THEN Split(SubSeq(s, 1, Len(s) - 1), "\n")
    ELSE Split(s, "\n")

\* s[a:b] with a >= 0 and b < 0, as Python clamps it
PySlice(s, a, b) ==
    LET start == IF a > Len(s) THEN Len(s) ELSE a
        stop  == IF Len(s) + b < 0 THEN 0 ELSE Len(s) + b
    IN  IF start < stop THEN SubSeq(s, start + 1, stop) ELSE <<>>

\* Path(p).name: what follows the last "/"
PathName(p) ==
    LET parts == Split(p, "/") IN parts[Len(parts)]

\* ------------------------------------------------------- string constants

S_linux ==
    <<"l", "i", "n", "u", "x">>
S_Linux ==
    <<"L", "i", "n", "u", "x">>
S_LINUX ==
    <<"L", "I", "N", "U", "X">>
S_Darwin ==
    <<"D", "a", "r", "w", "i", "n">>
S_x86_64 ==
    <<"x", "8", "6", "_", "6", "4">>
LdMuslX86 ==
    <<"/", "l", "i", "b", "/", "l", "d", "-", "m", "u", "s", "l", "-", "x", "8", "6", "_", "6", "4", ".", "s", "o", ".", "1">>
LdMultiarch ==
    <<"/", "l", "i", "b", "/", "x", "8", "6", "_", "6", "4", "-", "l", "i", "n", "u", "x", "-", "g", "n", "u", "/", "l", "d", "-", "l", "i", "n", "u", "x", "-", "x", "8", "6", "-", "6", "4", ".", "s", "o", ".", "2">>
LdLib32 ==
    <<"/", "l", "i", "b", "3", "2", "/", "l", "d", "-", "l", "i", "n", "u", "x", ".", "s", "o", ".", "2">>
LdLib64 ==
    <<"/", "l", "i", "b", "6", "4", "/", "l", "d", "-", "l", "i", "n", "u", "x", ".", "s", "o", ".", "2">>
S_version3 ==
    <<"-", "-", "-", "v", "e", "r", "s", "i", "o", "n">>
S_version2 ==
    <<"-", "-", "v", "e", "r", "s", "i", "o", "n">>
S_ldd ==
    <<"l", "d", "d">>
S_list ==
    <<"-", "-", "l", "i", "s", "t">>
S_target ==
    <<"{", "t", "a", "r", "g", "e", "t", "}">>
S_not_found ==
    <<":", " ", "n", "o", "t", " ", "f", "o", "u", "n", "d">>
S_timeout ==
    <<"t", "i", "m", "e", "o", "u", "t">>
S_musl ==
    <<"m", "u", "s", "l">>
S_glibc ==
    <<"g", "l", "i", "b", "c">>
S_gnu_c_library ==
    <<"g", "n", "u", " ", "c", " ", "l", "i", "b", "r", "a", "r", "y">>
S_ld_linux ==
    <<"l", "d", "-", "l", "i", "n", "u", "x">>
MuslText ==
    <<"m", "u", "s", "l", " ", "1", ".", "2", ".", "3", "\n">>
GnuText ==
    <<"G", "N", "U", " ", "C", " ", "L", "i", "b", "r", "a", "r", "y", ")", " ", "s", "t", "a", "b", "l", "e", " ", "r", "e", "l", "e", "a", "s", "e", " ", "v", "e", "r", "s", "i", "o", "n", " ", "2", ".", "3", "5", "\n">>
UbuntuText ==
    <<"I", "D", "=", "u", "b", "u", "n", "t", "u", "\n", "N", "A", "M", "E", "=", "\"", "U", "b", "u", "n", "t", "u", "\"", "\n", "V", "E", "R", "S", "I", "O", "N", "_", "I", "D", "=", "\"", "2", "2", ".", "0", "4", "\"", "\n">>
ShortText ==
    <<"I", "D", "=", "a", "b", "\n">>
S_ID ==
    <<"I", "D">>
S_NAME ==
    <<"N", "A", "M", "E">>
S_VERSION_ID ==
    <<"V", "E", "R", "S", "I", "O", "N", "_", "I", "D">>
S_PRETTY_NAME ==
    <<"P", "R", "E", "T", "T", "Y", "_", "N", "A", "M", "E">>
S_ID_LIKE ==
    <<"I", "D", "_", "L", "I", "K", "E">>
S_ubuntu ==
    <<"u", "b", "u", "n", "t", "u">>
S_Ubuntu ==
    <<"U", "b", "u", "n", "t", "u">>
S_22_04 ==
    <<"2", "2", ".", "0", "4">>

S_2_36 ==
    <<"2", ".", "3", "6">>
S_1_2_3 ==
    <<"1", ".", "2", ".", "3">>
S_2_35 ==
    <<"2", ".", "3", "5">>
KernelRelease ==
    <<"6", ".", "1", ".", "0">>

\* ------------------------------------------------------------------ bounds

\* how many dynamic-linker candidates the host's file system holds at most
MaxLinkers == 2

\* how many names of the catalog (its first ones) the host may have installed
MaxBins == 2

\* -------------------------------------------------------------------- host

PKG_BINARIES ==
    <<"apt", "apt-get", "dnf", "yum", "zypper", "pacman", "apk",
      "xbps-install", "emerge", "nix", "nix-env", "swupd", "eopkg", "urpmi">>

\* platform.system()
OsNames == {S_Linux, S_LINUX, S_Darwin}

\* platform.machine(); empty when it cannot be determined
Machines == {S_x86_64, <<>>}

\* the paths the six glob patterns can match on the modelled hosts
LdPaths == {LdMuslX86, LdMultiarch, LdLib32, LdLib64}

\* the matches that are regular files and executable
LinkerSets == {S \in SUBSET LdPaths : Cardinality(S) <= MaxLinkers}

\* /etc/os-release and /usr/lib/os-release: absent, or the file's text
OsReleaseLayouts ==
    { [etc |-> None, usr |-> None],
      [etc |-> None, usr |-> Some(ShortText)],
      [etc |-> Some(UbuntuText), usr |-> None],
      [etc |-> Some(ShortText), usr |-> Some(UbuntuText)] }

\* the catalog names shutil.which resolves
BinSets ==
    SUBSET {PKG_BINARIES[i] : i \in 1..(IF MaxBins < Len(PKG_BINARIES)
                                        THEN MaxBins ELSE Len(PKG_BINARIES))}

\* the environment variables set to a non-empty value, and /.flatpak-info
SandboxEnvs ==
    { [environ |-> {}, flatpakInfo |-> FALSE],
      [environ |-> {"SNAP_NAME"}, flatpakInfo |-> FALSE],
      [environ |-> {}, flatpakInfo |-> TRUE] }

\* platform.libc_ver(): (family, version), both empty when it finds nothing
OsLibcs == {<<"glibc", S_2_36>>, <<"", <<>>>>}

Hosts ==
    [osName : OsNames, kernel : {KernelRelease}, machine : Machines,
     linkerFiles : LinkerSets, osRelease : OsReleaseLayouts,
     pathBins : BinSets, sandbox : SandboxEnvs, osLibc : OsLibcs]

\* what a spawned process does: it exits with a status and two texts, its
\* binary is missing, or it outlives the timeout
ProcOutcomes ==
    { [kind |-> "exit", rc |-> 0, stdout |-> MuslText, stderr |-> <<>>],
      [kind |-> "exit", rc |-> 0, stdout |-> GnuText, stderr |-> <<>>],
      [kind |-> "exit", rc |-> 1, stdout |-> <<>>, stderr |-> <<>>],
      [kind |-> "missing"],
      [kind |-> "timeout"] }

\* the orders in which iterating the set S can yield its elements
Orders(S) ==
    {s \in [1..Cardinality(S) -> S] : \A x \in S : \E i \in DOMAIN s : s[i] = x}

\* ------------------------------------------------------------ Python values

PyInt(n) == [type |-> "int", n |-> n]

PyStr(s) == [type |-> "str", chars |-> s]

PyTuple(items) == [type |-> "tuple", items |-> items]

\* the types an await expression accepts
Awaitables == {"coroutine", "task", "future"}

\* await v
Await(v) == IF v.type \in Awaitables THEN Return(v) ELSE Raise("TypeError")

\* v.decode(): a method of bytes only
Decode(v) == IF v.type = "bytes" THEN Return(v.chars) ELSE Raise("AttributeError")

\* dicts are functions from keys
EmptyDict == [k \in {} |-> k]

DictSet(d, k, v) == [x \in (DOMAIN d) \cup {k} |-> IF x = k THEN v ELSE d[x]]

\* dict.get(k)
Get(d, k) == IF k \in DOMAIN d THEN Some(d[k]) ELSE None

\* what one call did: its result, the processes it spawned, whether it
\* scanned the file system with glob, the sub-probes it started
Out(r, sp, gl, pr) == [ret |-> r, spawned |-> sp, globbed |-> gl, probes |-> pr]

\* ---------------------------------------------------------- command runner

RunCmd(argv, executable, outcome) ==
    IF outcome.kind = "exit"
    THEN PyTuple(<<PyInt(outcome.rc), PyStr(Strip(outcome.stdout)),
                   PyStr(Strip(outcome.stderr))>>)
    ELSE IF outcome.kind = "missing"
    THEN PyTuple(<<PyInt(127), PyStr(<<>>),
                   PyStr((IF executable.some THEN executable.val ELSE argv[1])
                         \o S_not_found)>>)
    ELSE PyTuple(<<PyInt(124), PyStr(<<>>), PyStr(S_timeout)>>)

WhichAny(names, pathBins) == SelectSeq(names, LAMBDA n : n \in pathBins)

\* ------------------------------------------------------ environment probes

\* a wrong comparison: the name is not lower-cased first
IsSupportedCaseSensitive(os_name) == os_name = S_linux

IsSupported(os_name) == Lower(os_name) = S_linux

DetectSandbox(h) ==
    [snap |-> ("SNAP" \in h.sandbox.environ \/ "SNAP_NAME" \in h.sandbox.environ),
     flatpak |-> (\/ "FLATPAK_ID" \in h.sandbox.environ
                  \/ "FLATPAK_SESSION_HELPER" \in h.sandbox.environ
                  \/ h.sandbox.flatpakInfo)]

\* Path(p).resolve() of a bare name: the name under the working directory
Resolve(p) == [dir |-> "cwd", name |-> p]

ChoosePackageManager(h) ==
    LET available_bins == WhichAny(PKG_BINARIES, h.pathBins)
        available_names ==
            [i \in DOMAIN available_bins |-> Resolve(available_bins[i])]
    IN  IF available_bins # <<>>
        THEN Return([packages |-> available_bins, available |-> available_names])
        ELSE Raise("FileNotFoundError")

\* the pairs (k, v) the comprehension of parse_os_release unpacks, in order:
\* every piece of every line split at "=" is unpacked into two names, which
\* takes a piece of exactly two characters
RECURSIVE Pieces(_)
Pieces(lines) ==
    IF lines = <<>> THEN <<>>
    ELSE Split(Head(lines), "=") \o Pieces(Tail(lines))

RECURSIVE DictOfPieces(_)
DictOfPieces(pieces) ==
    IF pieces = <<>> THEN EmptyDict
    ELSE LET init == DictOfPieces(SubSeq(pieces, 1, Len(pieces) - 1))
             p == pieces[Len(pieces)]
         IN  DictSet(init, <<p[1]>>, PySlice(<<p[2]>>, 1, -2))

ParseOsRelease(h) ==
    LET file == IF h.osRelease.etc.some THEN h.osRelease.etc ELSE h.osRelease.usr
    IN  IF ~file.some THEN Raise("FileNotFoundError")
        ELSE LET pieces == Pieces(SplitLines(file.val))
             IN  IF \E i \in DOMAIN pieces : Len(pieces[i]) # 2
                 THEN Raise("ValueError")
                 ELSE Return(DictOfPieces(pieces))

\* platform.freedesktop_os_release() of the standard library: the first of
\* the two files, each NAME=value line with the quotes around the value
\* dropped, over the library's three defaults; OSError without a file
NameChars ==
    {Upper[i] : i \in DOMAIN Upper} \cup {LowerAlpha[i] : i \in DOMAIN LowerAlpha}
        \cup {"0", "1", "2", "3", "4", "5", "6", "7", "8", "9", "_"}

Unquote(v) ==
    IF Len(v) >= 2 /\ v[1] \in {"\"", "'"} /\ v[Len(v)] = v[1]
    THEN SubSeq(v, 2, Len(v) - 1)
    ELSE v

RECURSIVE OsReleaseDict(_)
OsReleaseDict(lines) ==
    IF lines = <<>>
    THEN DictSet(DictSet(DictSet(EmptyDict, S_NAME, S_Linux), S_ID, S_linux),
                 S_PRETTY_NAME, S_Linux)
    ELSE LET init == OsReleaseDict(SubSeq(lines, 1, Len(lines) - 1))
             line == lines[Len(lines)]
             eqs  == {i \in 1..Len(line) : line[i] = "="}
         IN  IF eqs = {} THEN init
             ELSE LET i == CHOOSE j \in eqs : \A k \in eqs : j <= k
                      name == SubSeq(line, 1, i - 1)
                  IN  IF name # <<>> /\ \A j \in DOMAIN name : name[j] \in NameChars
                      THEN DictSet(init, name, Unquote(SubSeq(line, i + 1, Len(line))))
                      ELSE init

FreedesktopOsRelease(h) ==
    LET file == IF h.osRelease.etc.some THEN h.osRelease.etc ELSE h.osRelease.usr
    IN  IF ~file.some THEN Raise("OSError")
        ELSE Return(OsReleaseDict(SplitLines(file.val)))

\* the five normalized fields both orchestrators project the mapping into
Distro(osr) ==
    [id |-> Get(osr, S_ID), name |-> Get(osr, S_NAME),
     version_id |-> Get(osr, S_VERSION_ID),
     pretty_name |-> Get(osr, S_PRETTY_NAME), id_like |-> Get(osr, S_ID_LIKE)]

\* ----------------------------------------------------------- linker locator

\* the sort key: (0 when the machine string occurs in the path, else 1; length)
SortKey(x, mach) == <<IF mach # <<>> /\ Contains(x, mach) THEN 0 ELSE 1, Len(x)>>

KeyLE(k1, k2) == k1[1] < k2[1] \/ (k1[1] = k2[1] /\ k1[2] <= k2[2])

\* list.sort(key=...) is stable: an element goes after those whose key is
\* not greater
RECURSIVE SortStable(_, _)
SortStable(seq, mach) ==
    IF seq = <<>> THEN <<>>
    ELSE LET sorted == SortStable(SubSeq(seq, 1, Len(seq) - 1), mach)
             x == seq[Len(seq)]
             n == Cardinality({i \in DOMAIN sorted :
                                 KeyLE(SortKey(sorted[i], mach), SortKey(x, mach))})
         IN  SubSeq(sorted, 1, n) \o <<x>> \o SubSeq(sorted, n + 1, Len(sorted))

\* `order` is list(found): the set's iteration order, which for a set of
\* strings follows their hashes, salted anew in every interpreter process
FindDynamicLinkers(h, order) == SortStable(order, h.machine)

\* ---------------------------------------------------------- libc classifier

Digits == {"0", "1", "2", "3", "4", "5", "6", "7", "8", "9"}

\* the end of the run of digits that starts at k
DigitRunEnd(text, k) ==
    CHOOSE e \in k..Len(text) :
        /\ \A m \in k..e : text[m] \in Digits
        /\ (e = Len(text) \/ text[e + 1] \notin Digits)

\* [^0-9]*([0-9]+\.[0-9]+(?:\.[0-9]+)?) matched from position j on
VersionAt(text, j) ==
    LET ds == {m \in j..Len(text) : text[m] \in Digits}
    IN  IF ds = {} THEN None
        ELSE LET k  == CHOOSE m \in ds : \A o \in ds : m <= o
                 e1 == DigitRunEnd(text, k)
             IN  IF e1 + 2 <= Len(text) /\ text[e1 + 1] = "."
                        /\ text[e1 + 2] \in Digits
                 THEN LET e2 == DigitRunEnd(text, e1 + 2)
                          e3 == IF e2 + 2 <= Len(text) /\ text[e2 + 1] = "."
                                       /\ text[e2 + 2] \in Digits
                                THEN DigitRunEnd(text, e2 + 2)
                                ELSE e2
                      IN  Some(SubSeq(text, k, e3))
                 ELSE None

\* re.search(<one of tokens>[^0-9]*(version), text, re.IGNORECASE): group 1
\* of the leftmost match, "" without a match
SearchVer(text, tokens) ==
    LET low == Lower(text)
        At(i, t) == i + Len(t) - 1 <= Len(text)
                        /\ SubSeq(low, i, i + Len(t) - 1) = t
                        /\ VersionAt(text, i + Len(t)).some
        starts == {i \in 1..Len(text) : \E t \in tokens : At(i, t)}
    IN  IF starts = {} THEN <<>>
        ELSE LET i == CHOOSE m \in starts : \A o \in starts : m <= o
                 t == CHOOSE u \in tokens : At(i, u)
             IN  VersionAt(text, i + Len(t)).val

parse_glib_ver(text) == SearchVer(text, {S_glibc, S_gnu_c_library})

parse_musl_ver(text) == SearchVer(text, {S_musl})

LibcInfo(family, version, selected_linker, detector) ==
    [family |-> family, version |-> version,
     selected_linker |-> selected_linker, detector |-> detector]

\* a wrong fallback: the family of the host lookup is dropped
LibcFromPlatformDropped(sel, osLibc) ==
    LibcInfo("unknown", osLibc[2], IF sel.some THEN sel.val ELSE <<>>,
             "platform.libc_ver")

\* the last step: fam, ver = platform.libc_ver()
LibcFromPlatform(sel, osLibc) ==
    LibcInfo(osLibc[1], osLibc[2], IF sel.some THEN sel.val ELSE <<>>,
             "platform.libc_ver")

\* out, err, _ = await <awaited>; combined = (out.decode() + "\n" + err.decode()).strip()
Combined(awaited) ==
    LET aw == Await(awaited)
    IN  IF ~aw.ok THEN aw
        ELSE LET out == Decode(aw.val.items[1])
                 err == Decode(aw.val.items[2])
             IN  IF ~out.ok THEN out
                 ELSE IF ~err.ok THEN err
                 ELSE Return(Strip(out.val \o <<"\n">> \o err.val))

\* o1 and o2 are what the two processes do, if they are spawned
DetectLibc(h, order, o1, o2) ==
    LET linkers == FindDynamicLinkers(h, order)
        sel == IF linkers # <<>> THEN Some(linkers[1]) ELSE None
    IN  IF sel.some /\ sel.val # <<>>
        THEN LET argv1 == <<sel.val, S_version3>>
                 run1  == [argv |-> argv1, executable |-> None, outcome |-> o1]
                 c1    == Combined(RunCmd(argv1, None, o1))
             IN  IF ~c1.ok THEN Out(c1, <<run1>>, TRUE, <<>>)
                 ELSE IF Contains(Lower(c1.val), S_musl)
                 THEN Out(Return(LibcInfo("musl", parse_musl_ver(c1.val), sel.val,
                                          "ld--version")), <<run1>>, TRUE, <<>>)
                 ELSE IF \/ Contains(Lower(c1.val), S_glibc)
                         \/ Contains(Lower(c1.val), S_gnu_c_library)
                         \/ Contains(PathName(sel.val), S_ld_linux)
                 THEN Out(Return(LibcInfo("glibc", parse_glib_ver(c1.val), sel.val,
                                          "ld--version")), <<run1>>, TRUE, <<>>)
                 ELSE LET argv2 == <<S_ldd, S_version2>>
                          run2  == [argv |-> argv2, executable |-> sel, outcome |-> o2]
                          c2    == Combined(RunCmd(argv2, sel, o2))
                      IN  IF ~c2.ok THEN Out(c2, <<run1, run2>>, TRUE, <<>>)
                          ELSE IF Contains(Lower(c2.val), S_musl)
                          THEN Out(Return(LibcInfo("musl", parse_musl_ver(c2.val),
                                                   sel.val, "ldd-mode")),
                                   <<run1, run2>>, TRUE, <<>>)
                          ELSE Out(Return(LibcFromPlatform(sel, h.osLibc)),
                                   <<run1, run2>>, TRUE, <<>>)
        ELSE Out(Return(LibcFromPlatform(sel, h.osLibc)), <<>>, TRUE, <<>>)

\* ------------------------------------------------------- ldd-recipe deriver

LddInfo(method, cmd_template, executable) ==
    [method |-> method, cmd_template |-> cmd_template, executable |-> executable]

\* LddInfo(): the dataclass defaults
LddInfoDefault == LddInfo("unknown", None, None)

\* a wrong order of the tests: the family is looked at before the linker
LddEquivalentFamilyFirst(libc_family, linker) ==
    IF libc_family = "glibc"
    THEN LddInfo("glibc-ld--list", Some(<<linker, S_list, S_target>>), None)
    ELSE IF libc_family = "musl"
    THEN LddInfo("musl-ld-argv0-ldd", Some(<<S_ldd, S_target>>), Some(linker))
    ELSE LddInfoDefault

LddEquivalent(libc_family, linker) ==
    IF linker = <<>> THEN LddInfoDefault
    ELSE IF libc_family = "glibc"
    THEN LddInfo("glibc-ld--list", Some(<<linker, S_list, S_target>>), None)
    ELSE IF libc_family = "musl"
    THEN LddInfo("musl-ld-argv0-ldd", Some(<<S_ldd, S_target>>), Some(linker))
    ELSE LddInfoDefault

\* ------------------------------------------------------------ orchestrators

\* ReportInfo(os=..., kernel=..., supported=..., machines=...) of curioso.app
ReportInfo(h) ==
    [os |-> h.osName, kernel |-> h.kernel, supported |-> IsSupported(h.osName),
     machines |-> h.machine, snap |-> FALSE, flatpak |-> FALSE, distro |-> None,
     package_manager |-> None, libc |-> None, ldd_equivalent |-> None]

\* curioso.app.probe; lc is what its call of _detect_libc does, once reached
Probe(h, lc) ==
    LET report == ReportInfo(h)
    IN  IF ~report.supported THEN Out(Return(report), <<>>, FALSE, <<>>)
        ELSE LET sb  == DetectSandbox(h)
                 osr == FreedesktopOsRelease(h)
             IN  IF ~osr.ok THEN Out(osr, <<>>, FALSE, <<"sandbox", "distro">>)
                 ELSE LET pr == <<"sandbox", "distro", "libc">>
                      IN  IF ~lc.ret.ok THEN Out(lc.ret, lc.spawned, lc.globbed, pr)
                          ELSE Out(Return([report EXCEPT
                                       !.snap = sb.snap,
                                       !.flatpak = sb.flatpak,
                                       !.distro = Some(Distro(osr.val)),
                                       !.libc = Some(lc.ret.val),
                                       !.ldd_equivalent =
                                           Some(LddEquivalent(lc.ret.val.family,
                                                lc.ret.val.selected_linker))]),
                                   lc.spawned, lc.globbed, pr \o <<"ldd_equivalent">>)

\* the report dict of curioso.collect_min_report, before the Linux probes
MinReport(h) ==
    [os |-> h.osName, kernel |-> h.kernel, supported |-> IsSupported(h.osName),
     snap |-> FALSE, flatpak |-> FALSE, distro |-> None,
     package_manager |-> None, libc |-> None, ldd_equivalent |-> None]

\* curioso.collect_min_report; lc is what its call of detect_libc does, once
\* reached
CollectMinReport(h, lc) ==
    LET report == MinReport(h)
    IN  IF ~report.supported THEN Out(Return(report), <<>>, FALSE, <<>>)
        ELSE LET sb  == DetectSandbox(h)
                 osr == ParseOsRelease(h)
             IN  IF ~osr.ok THEN Out(osr, <<>>, FALSE, <<"sandbox", "distro">>)
                 ELSE LET pm == ChoosePackageManager(h)
                          p3 == <<"sandbox", "distro", "package_manager">>
                      IN  IF ~pm.ok THEN Out(pm, <<>>, FALSE, p3)
                          ELSE LET p4 == p3 \o <<"libc">>
                               IN  IF ~lc.ret.ok
                                   THEN Out(lc.ret, lc.spawned, lc.globbed, p4)
                                   ELSE Out(Return([report EXCEPT
                                                !.snap = sb.snap,
                                                !.flatpak = sb.flatpak,
                                                \* report["distro"] = distro, then
                                                \* report["distro"] = pm
                                                !.distro = Some(pm.val),
                                                !.libc = Some(lc.ret.val),
                                                !.ldd_equivalent =
                                                    Some(LddEquivalent(lc.ret.val.family,
                                                         lc.ret.val.selected_linker))]),
                                            lc.spawned, lc.globbed,
                                            p4 \o <<"ldd_equivalent">>)

\* ---------------------------------------------------------------------- CLI

\* the attributes of the class ReportInfo: its fields (all have defaults) and
\* its method
ReportInfoAttrs ==
    {"os", "kernel", "supported", "machines", "snap", "flatpak", "distro",
     "package_manager", "libc", "ldd_equivalent", "__json__"}

\* the names the module curioso._utils defines
UtilsAttrs == {"shutil", "subprocess", "run_cmd", "which_any"}

\* ReportInfo.__json__: the fields that are serialized
ReportJson(r) ==
    [os |-> r.os, kernel |-> r.kernel, supported |-> r.supported, snap |-> r.snap,
     flatpak |-> r.flatpak, distro |-> r.distro,
     package_manager |-> r.package_manager, libc |-> r.libc,
     ldd_equivalent |-> r.ldd_equivalent]

\* the process of an uncaught exception: traceback on stderr, status 1
Uncaught(e) == [exit |-> 1, stdout |-> None, exc |-> Some(e)]

\* run_cli: asyncio.run(main()); p is what the probe main() awaits does, once
\* reached
RunCli(h, p) ==
    IF "probe" \notin ReportInfoAttrs
    THEN Out(Uncaught("AttributeError"), <<>>, FALSE, <<>>)
    ELSE IF ~p.ret.ok
    THEN Out(Uncaught(p.ret.exc), p.spawned, p.globbed, p.probes)
    ELSE IF "AutoEncoder" \notin UtilsAttrs
    THEN Out(Uncaught("AttributeError"), p.spawned, p.globbed, p.probes)
    ELSE Out([exit |-> 0, stdout |-> Some(ReportJson(p.ret.val)), exc |-> None],
             p.spawned, p.globbed, p.probes)

\* ------------------------------------------------------------ state machine

\* the libc families and linker paths ldd_equivalent is called with
Families == {"glibc", "musl", "unknown", ""}

LinkerArgs == LdPaths \cup {<<>>}

Init ==
    /\ host \in Hosts
    /\ call = "none"
    /\ args = <<>>
    /\ ret = None
    /\ spawned = <<>>
    /\ globbed = FALSE
    /\ probes = <<>>
    /\ rankings = {}

\* A behaviour is one invocation on a host: one operation of the package is
\* run.  No operation keeps state from one run to the next, so what a run
\* does depends on the host and on what the run itself draws.
Fresh == call = "none"

\* a call and what it did become the state
Record(c, a, o) ==
    /\ call' = c
    /\ args' = a
    /\ ret' = o.ret
    /\ spawned' = o.spawned
    /\ globbed' = o.globbed
    /\ probes' = o.probes
    /\ UNCHANGED host

\* what the second process does is drawn only when the classifier spawns a
\* second process
SecondOutcomes(order, o1) ==
    IF Len(DetectLibc(host, order, o1, o1).spawned) = 2 THEN ProcOutcomes ELSE {o1}

CallDetectSandbox ==
    /\ Fresh
    /\ Record("detect_sandbox", <<>>, Out(Return(DetectSandbox(host)), <<>>, FALSE, <<>>))
    /\ UNCHANGED rankings

CallParseOsRelease ==
    /\ Fresh
    /\ Record("parse_os_release", <<>>, Out(ParseOsRelease(host), <<>>, FALSE, <<>>))
    /\ UNCHANGED rankings

CallChoosePackageManager ==
    /\ Fresh
    /\ Record("choose_package_manager", <<>>,
              Out(ChoosePackageManager(host), <<>>, FALSE, <<>>))
    /\ UNCHANGED rankings

\* the ranking may be run again on the same host, each run a process of its
\* own that draws the set's iteration order anew
CallFindDynamicLinkers ==
    /\ call \in {"none", "_find_dynamic_linkers"}
    /\ \E order \in Orders(host.linkerFiles) :
        LET sorted_list == FindDynamicLinkers(host, order)
        IN  /\ Record("_find_dynamic_linkers", <<>>,
                      Out(Return(sorted_list), <<>>, TRUE, <<>>))
            /\ rankings' = rankings \cup {sorted_list}

CallDetectLibc ==
    /\ Fresh
    /\ \E order \in Orders(host.linkerFiles), o1 \in ProcOutcomes :
        \E o2 \in SecondOutcomes(order, o1) :
            /\ Record("detect_libc", <<>>, DetectLibc(host, order, o1, o2))
            /\ UNCHANGED rankings

CallLddEquivalent ==
    /\ Fresh
    /\ \E f \in Families, l \in LinkerArgs :
        /\ Record("ldd_equivalent", <<f, l>>,
                  Out(Return(LddEquivalent(f, l)), <<>>, FALSE, <<>>))
        /\ UNCHANGED rankings

CallProbe ==
    /\ Fresh
    /\ \E order \in Orders(host.linkerFiles), o1 \in ProcOutcomes :
        \E o2 \in SecondOutcomes(order, o1) :
            /\ Record("probe", <<>>, Probe(host, DetectLibc(host, order, o1, o2)))
            /\ UNCHANGED rankings

CallCollectMinReport ==
    /\ Fresh
    /\ \E order \in Orders(host.linkerFiles), o1 \in ProcOutcomes :
        \E o2 \in SecondOutcomes(order, o1) :
            /\ Record("collect_min_report", <<>>,
                      CollectMinReport(host, DetectLibc(host, order, o1, o2)))
            /\ UNCHANGED rankings

CallRunCli ==
    /\ Fresh
    /\ \E order \in Orders(host.linkerFiles), o1 \in ProcOutcomes :
        \E o2 \in SecondOutcomes(order, o1) :
            /\ Record("run_cli", <<>>,
                      RunCli(host, Probe(host, DetectLibc(host, order, o1, o2))))
            /\ UNCHANGED rankings

Next ==
    \/ CallDetectSandbox
    \/ CallParseOsRelease
    \/ CallChoosePackageManager
    \/ CallFindDynamicLinkers
    \/ CallDetectLibc
    \/ CallLddEquivalent
    \/ CallProbe
    \/ CallCollectMinReport
    \/ CallRunCli

Spec == Init /\ [][Next]_vars

\* ------------------------------------------------------------------- claims

\* the host reports Linux, whatever the case of the letters
OnLinux == Lower(host.osName) = S_linux

\* one of the two orchestrators ran
Orchestrated == call \in {"probe", "collect_min_report"}

\* the text the classifier is meant to read from the i-th process it ran:
\* standard output, a line feed, standard error, stripped
TextOf(i) ==
    LET t == RunCmd(spawned[i].argv, spawned[i].executable, spawned[i].outcome).items
    IN  Strip(t[2].chars \o <<"\n">> \o t[3].chars)

\* C1: whatever linkers the host has and whatever the spawned processes do
\* (output, missing binary, timeout), the libc classifier returns a LibcInfo
\* and never raises.
C1_ClassifierReturns ==
    call = "detect_libc" =>
        /\ ret.ok
        /\ ret.val.family \in {"glibc", "musl", "unknown", ""}

\* C2: with a linker candidate the classifier follows the cascade, first match
\* first: "musl" in the linker's own text, then "glibc" / "gnu c library" in
\* it or "ld-linux" in the linker's file name, then "musl" in the text of ldd
\* run through the linker, then the host lookup; the selected linker is
\* recorded in every case, and the two sample texts give versions 1.2.3 and
\* 2.35.
C2_Cascade ==
    (call = "detect_libc" /\ host.linkerFiles # {}) =>
        /\ ret.ok
        /\ Len(spawned) >= 1
        /\ ret.val.selected_linker = spawned[1].argv[1]
        /\ IF Contains(Lower(TextOf(1)), S_musl)
           THEN /\ ret.val.family = "musl"
                /\ ret.val.detector = "ld--version"
                /\ (TextOf(1) = Strip(MuslText) => ret.val.version = S_1_2_3)
           ELSE IF \/ Contains(Lower(TextOf(1)), S_glibc)
                   \/ Contains(Lower(TextOf(1)), S_gnu_c_library)
                   \/ Contains(PathName(spawned[1].argv[1]), S_ld_linux)
           THEN /\ ret.val.family = "glibc"
                /\ ret.val.detector = "ld--version"
                /\ (TextOf(1) = Strip(GnuText) => ret.val.version = S_2_35)
           ELSE /\ Len(spawned) = 2
                /\ IF Contains(Lower(TextOf(2)), S_musl)
                   THEN ret.val.family = "musl" /\ ret.val.detector = "ldd-mode"
                   ELSE /\ ret.val.family = host.osLibc[1]
                        /\ ret.val.detector = "platform.libc_ver"

\* the two sandbox flags of the report are null: neither is a Boolean
FlagsNull == ret.val.snap \notin BOOLEAN /\ ret.val.flatpak \notin BOOLEAN

FlagsFalse == ret.val.snap = FALSE /\ ret.val.flatpak = FALSE

\* what both forms of C3 say apart from the sandbox flags: supported is true
\* exactly on Linux, and off Linux the orchestrator returns at once, having
\* started no sub-probe, scanned nothing and spawned nothing, with distro,
\* package_manager, libc and ldd_equivalent null
ShortCircuits(flagsUnset) ==
    Orchestrated =>
        /\ ret.ok => (ret.val.supported <=> OnLinux)
        /\ ~OnLinux =>
              /\ ret.ok
              /\ ~ret.val.supported
              /\ flagsUnset
              /\ ret.val.distro = None
              /\ ret.val.package_manager = None
              /\ ret.val.libc = None
              /\ ret.val.ldd_equivalent = None
              /\ probes = <<>>
              /\ ~globbed
              /\ spawned = <<>>

\* C3 as claimed: off Linux every Linux-specific field of the report, the two
\* sandbox flags included, is null.
C3_AllFieldsNull == ShortCircuits(FlagsNull)

\* C3, amended: supported is true exactly when the lower-cased OS name is
\* "linux"; off Linux nothing is probed, scanned or spawned, the fields distro,
\* package_manager, libc and ldd_equivalent are null and the two sandbox flags
\* are false.
C3_ShortCircuit == ShortCircuits(FlagsFalse)

C3_Witness == call = "probe" /\ host.osName = S_Darwin /\ ret.ok

\* C4: on Linux, a missing os-release file, no resolvable package manager and
\* no linker candidate are null or empty fields of the report, never an error:
\* the orchestrator returns a report and has run every sub-probe.  (Stated for
\* the hosts without a linker candidate, on which the classifier spawns
\* nothing.)
C4_AbsenceIsNull ==
    (Orchestrated /\ OnLinux /\ host.linkerFiles = {}) =>
        /\ ret.ok
        /\ (~host.osRelease.etc.some /\ ~host.osRelease.usr.some
                => ret.val.distro = None)
        /\ (host.pathBins = {} => ret.val.package_manager = None)
        /\ ret.val.libc.some
        /\ ret.val.libc.val.selected_linker = <<>>

\* C5: ldd_equivalent(family, linker) is the table: a linker and glibc give
\* "glibc-ld--list" with [linker, "--list", "{target}"] and no executable; a
\* linker and musl give "musl-ld-argv0-ldd" with ["ldd", "{target}"] and the
\* linker as executable; anything else, an empty linker included, gives the
\* default record (the method the spec calls none) without template or
\* executable.
C5_LddTable ==
    call = "ldd_equivalent" =>
        LET family == args[1]
            linker == args[2]
        IN  /\ ret.ok
            /\ (linker # <<>> /\ family = "glibc") =>
                  ret.val = [method |-> "glibc-ld--list",
                             cmd_template |-> Some(<<linker, S_list, S_target>>),
                             executable |-> None]
            /\ (linker # <<>> /\ family = "musl") =>
                  ret.val = [method |-> "musl-ld-argv0-ldd",
                             cmd_template |-> Some(<<S_ldd, S_target>>),
                             executable |-> Some(linker)]
            /\ (linker = <<>> \/ family \notin {"glibc", "musl"}) =>
                  ret.val = [method |-> "unknown", cmd_template |-> None,
                             executable |-> None]

C5_Witness ==
    /\ call = "ldd_equivalent"
    /\ args = <<"glibc", <<>>>>
    /\ ret.val.method = "unknown"

\* C6: without a linker candidate the classifier spawns no process and returns
\* the family and version of platform.libc_ver() with detector
\* "platform.libc_ver" and an empty selected linker, and a report assembled
\* from it has the default ldd recipe (the method the spec calls none).
C6_NoLinker ==
    host.linkerFiles = {} =>
        LET expected == [family |-> host.osLibc[1], version |-> host.osLibc[2],
                         selected_linker |-> <<>>,
                         detector |-> "platform.libc_ver"]
        IN  /\ call = "detect_libc" =>
                  /\ ret = Return(expected)
                  /\ spawned = <<>>
            /\ (Orchestrated /\ OnLinux /\ ret.ok) =>
                  /\ ret.val.libc = Some(expected)
                  /\ ret.val.ldd_equivalent.some
                  /\ ret.val.ldd_equivalent.val.method = "unknown"
                  /\ ret.val.ldd_equivalent.val.cmd_template = None
                  /\ spawned = <<>>

C6_Witness ==
    /\ call = "probe"
    /\ host.linkerFiles = {}
    /\ host.osLibc[1] = "glibc"
    /\ ret.ok
    /\ ret.val.libc.some
    /\ ret.val.libc.val.detector = "platform.libc_ver"

\* C7: a report assembled on a host where catalog names resolve lists them, in
\* catalog order, in its field package_manager, and its field distro holds the
\* five-key distro mapping.
C7_PackageManagerReported ==
    (Orchestrated /\ OnLinux /\ ret.ok /\ host.pathBins # {}) =>
        /\ ret.val.package_manager.some
        /\ ret.val.package_manager.val.packages = WhichAny(PKG_BINARIES, host.pathBins)
        /\ ret.val.distro.some
        /\ DOMAIN ret.val.distro.val =
               {"id", "name", "version_id", "pretty_name", "id_like"}

\* C8: on one host every run of the ranking returns the same sequence, in which
\* the paths containing the machine string come first and, among those with
\* the same flag, shorter ones come first.
C8_RankingDeterministic ==
    /\ Cardinality(rankings) <= 1
    /\ \A r \in rankings : \A i, j \in DOMAIN r :
           i < j => KeyLE(SortKey(r[i], host.machine), SortKey(r[j], host.machine))

\* C9: the CLI prints the report and exits 0 whenever the probe completes, as it
\* does on every host that is not Linux.
C9_CliExitsZero ==
    (call = "run_cli" /\ ~OnLinux) =>
        /\ ret.exit = 0
        /\ ret.stdout.some

\* C10: parse_os_release maps the keys of the first existing file to their
\* values, the double quotes around a value dropped; the sample file gives
\* ID -> ubuntu, NAME -> Ubuntu, VERSION_ID -> 22.04, and a key the file lacks
\* is absent from the mapping.
C10_ParsesOsRelease ==
    (call = "parse_os_release" /\ host.osRelease.etc = Some(UbuntuText)) =>
        /\ ret.ok
        /\ Get(ret.val, S_ID) = Some(S_ubuntu)
        /\ Get(ret.val, S_NAME) = Some(S_Ubuntu)
        /\ Get(ret.val, S_VERSION_ID) = Some(S_22_04)
        /\ Get(ret.val, S_ID_LIKE) = None

====
